---- MODULE Spec2Model ----
(***************************************************************************)
(* The bridge between the MCP server (unity-mcp-server/src/index.ts) and   *)
(* the Unity Editor plugin: the server's registered connection, the single *)
(* commandResultPromise slot, the Promise.race of every                    *)
(* execute_editor_command call against its 5000 ms timer, and the frames   *)
(* in flight between the server and the editor; the server's log buffer,   *)
(* its copy of the editor state, and the get_logs and get_editor_state     *)
(* tools that read them. The editor plugin's side of the connection       *)
(* (UnityMCPConnection): its socket, IsConnected, the reconnect timer of   *)
(* Update, and the receive and publication loops of every connection.      *)
(*                                                                         *)
(* The server runs on one event loop: each handler (a tool call up to its  *)
(* await, a WebSocket event, a timer callback together with the promise    *)
(* continuations it releases) is one atomic action.                        *)
(***************************************************************************)
EXTENDS Integers, Sequences, FiniteSets, TLC

\* Bounds of the model: how many tool calls and how many editor connections
\* a behaviour holds.
MaxCalls == 3
MaxConns == 2

\* How many log frames the editor sends in a behaviour.
MaxLogs == 4

\* this.maxLogBufferSize (1000 in the source) and the default of get_logs'
\* count (100 in the source), scaled down together: the buffer still holds
\* more entries than one default query returns.
maxLogBufferSize == 3
defaultCount == 2

\* The editor stamps a log entry with DateTime.UtcNow, in ticks of 100 ns
\* (10000 to the millisecond in the source); a Date holds whole milliseconds.
TicksPerMs == 2

\* How many sockets the editor creates in a behaviour, and the reconnect
\* interval (5 s in the source) in Update ticks.
MaxSockets == 3
reconnectInterval == 2

CallIds == 1..MaxCalls
SocketIds == 1..MaxSockets
ConnIds == 1..MaxConns

\* null, for unityConnection and for commandResultPromise
Null == 0

VARIABLES
  wsOpen,                \* the editor connections open on the server
  nextConn,              \* the id the next accepted connection gets
  unityConnection,       \* this.unityConnection: Null or a connection
  toUnity,               \* per connection, the frames sent and not yet handled by the editor
  fromUnity,             \* per connection, the frames the editor sent, not yet received
  commandResultPromise,  \* this.commandResultPromise: Null or the call whose resolver it holds
  timers,                \* the armed setTimeout timers, in arming (= firing) order
  nextCall,              \* the id the next execute_editor_command call gets
  pc,                    \* per call: "idle", "awaiting" (at the await of Promise.race), "returned"
  outcome,               \* per call: what the handler returned or threw
  returns,               \* per call: how many outcomes the caller received
  overlapped,            \* whether a call was ever made while another one was awaiting
  logBuffer,             \* this.logBuffer
  inserted,              \* every log entry handleLogMessage was given, in order
  editorState,           \* this.editorState
  response,              \* what the last get_logs / get_editor_state call returned or threw
  startLogIndex,         \* per call: const startLogIndex of its handler
  issuedAt,              \* per call: how many log entries had been inserted when it was issued
  commandLogs,           \* per call: const commandLogs, the logs of its answer
  webSocket,             \* the plugin's static webSocket: Null or a socket
  socketState,           \* per socket of the plugin: its WebSocketState
  isConnected,           \* the plugin's isConnected
  reconnectTimer,        \* the plugin's reconnectTimer, in Update ticks
  hostStarted,           \* whether the delayCall of the static constructor has run
  receiving,             \* per socket: the StartReceiving loop started when it connected
  sending,               \* per socket: the StartSendingEditorState loop started when it connected
  sendTarget             \* per socket: the socket that loop, while it runs, last called SendAsync on

\* the state of the command coordinator and of the connections
cmdVars == <<wsOpen, nextConn, unityConnection, toUnity, fromUnity,
             commandResultPromise, timers, nextCall, pc, outcome, returns, overlapped>>

\* the log buffer, the mirrored editor state and the answers of the two reads
facadeVars == <<logBuffer, inserted, editorState, response>>

\* the log capture of the execute_editor_command calls
captureVars == <<startLogIndex, issuedAt, commandLogs>>

\* the editor plugin's connection
hostVars == <<webSocket, socketState, isConnected, reconnectTimer, hostStarted,
              receiving, sending, sendTarget>>

\* the static fields of UnityMCPConnection when the class is loaded
HostInit ==
  /\ webSocket = Null
  /\ socketState = [s \in SocketIds |-> "None"]
  /\ isConnected = FALSE
  /\ reconnectTimer = 0
  /\ hostStarted = FALSE
  /\ receiving = [s \in SocketIds |-> "none"]
  /\ sending = [s \in SocketIds |-> "none"]
  /\ sendTarget = [s \in SocketIds |-> Null]

vars == <<wsOpen, nextConn, unityConnection, toUnity, fromUnity,
          commandResultPromise, timers, nextCall, pc, outcome, returns, overlapped,
          logBuffer, inserted, editorState, response,
          startLogIndex, issuedAt, commandLogs,
          webSocket, socketState, isConnected, reconnectTimer, hostStarted,
          receiving, sending, sendTarget>>

----------------------------------------------------------------------------
\* Outcomes of a tool call

NoOutcome == [kind |-> "none"]
ErrorOutcome(e) == [kind |-> "error", error |-> e]
SuccessOutcome(data) == [kind |-> "success", result |-> data]

\* An optional argument: absent (undefined) or given with a value
Absent == {}
Given(v) == {v}
ValueOf(arg) == CHOOSE v \in arg : TRUE

\* The code arguments a caller may pass, and the handler's validation of them
CodeArgs == {"valid", "missing", "nonString", "empty", "blank"}

\* Code that passes the validation and that the editor fails to compile or
\* that throws when the editor runs it
FailingCodes == {"doesNotCompile", "throws"}

ValidateCodeNoTrim(code) ==
  CASE code \in {"missing", "empty"} -> "InvalidParams"
    [] code = "nonString"            -> "InvalidParams"
    [] OTHER                         -> "ok"

ValidateCode(code) ==
  CASE code \in {"missing", "empty"} -> "InvalidParams"   \* !args?.code
    [] code = "nonString"            -> "InvalidParams"   \* typeof args.code !== 'string'
    [] code = "blank"                -> "InvalidParams"   \* args.code.trim().length === 0
    [] OTHER                         -> "ok"

\* The rejection of the timer's promise
TimeoutMessage == "Command execution timed out after 5 seconds"

\* The catch block of the handler: the error the caller sees for a rejection
CatchErrorGeneric(message) == ErrorOutcome("Failed")

CatchError(message) ==
  CASE message = TimeoutMessage          -> ErrorOutcome("Timeout")
    [] message = "NullReferenceException" -> ErrorOutcome("InvalidParams")
    [] message = "CompileError"           -> ErrorOutcome("InvalidParams")
    [] OTHER                              -> ErrorOutcome("Failed")

\* The frames. The editor's CSEditorHelper.ExecuteCommand throws for code that
\* does not compile or that throws; ExecuteEditorCommand then answers with
\* executionSuccess = false and the error's details.
ExecuteFrame(c, code) == [type |-> "executeEditorCommand", cmd |-> c, code |-> code]

HostRuns(code) ==
  CASE code = "doesNotCompile" -> [executionSuccess |-> FALSE, error |-> "CompilationFailed"]
    [] code = "throws"         -> [executionSuccess |-> FALSE, error |-> "RuntimeException"]
    [] OTHER                   -> [executionSuccess |-> TRUE, error |-> "none"]

ResultFrame(c, code) ==
  [type |-> "commandResult",
   data |-> [cmd |-> c,
             executionSuccess |-> HostRuns(code).executionSuccess,
             error |-> HostRuns(code).error]]

LogFrame(entry) == [type |-> "log", data |-> entry]
EditorStateFrame(state) == [type |-> "editorState", data |-> state]

\* What ws.on('message') makes of a frame. JSON.parse throws on a text that
\* is not JSON; message.data is undefined when the frame has no payload.
InvalidJson == [text |-> "{"]
Undefined == [undefined |-> TRUE]
FrameType(message) == IF "type" \in DOMAIN message THEN message.type ELSE "invalidJson"
PayloadOf(message) == IF "data" \in DOMAIN message THEN message.data ELSE Undefined

\* the frames on which JSON.parse or handleUnityMessage throws: a text that
\* is not JSON, and an editorState frame without payload (a property of
\* undefined is read); the catch block of the handler logs the error
MessageThrows(message) ==
  \/ FrameType(message) = "invalidJson"
  \/ FrameType(message) = "editorState" /\ PayloadOf(message) = Undefined

\* this.unityConnection after the catch block
ConnectionAfterErrorDropped(connection) == Null

ConnectionAfterError(connection) == connection

\* Promise.race settles once: the first of the two promises to settle gives
\* the call its outcome, and a later settlement of the other is ignored.
\* st = [pc, outcome, returns]
RaceSettleAgain(st, c, o) ==
  [pc      |-> [st.pc EXCEPT ![c] = "returned"],
   outcome |-> [st.outcome EXCEPT ![c] = o],
   returns |-> [st.returns EXCEPT ![c] = @ + 1]]

RaceSettleRejectionWins(st, c, o) ==
  IF st.pc[c] = "awaiting" \/ (st.pc[c] = "returned" /\ o.kind = "error")
    THEN [pc      |-> [st.pc EXCEPT ![c] = "returned"],
          outcome |-> [st.outcome EXCEPT ![c] = o],
          returns |-> st.returns]
    ELSE st

RaceSettle(st, c, o) ==
  IF st.pc[c] = "awaiting"
    THEN [pc      |-> [st.pc EXCEPT ![c] = "returned"],
          outcome |-> [st.outcome EXCEPT ![c] = o],
          returns |-> [st.returns EXCEPT ![c] = @ + 1]]
    ELSE st

\* setTimeout(..., timeoutMs): every call arms a timer of the same duration
\* (5000 ms), so the timers fire in arming order; the editor may take any time
\* to answer, so a timer may fire before or after the call's result arrives
ArmTimerNever(q, c) == q

ArmTimer(q, c) == Append(q, c)

CallState == [pc |-> pc, outcome |-> outcome, returns |-> returns]

----------------------------------------------------------------------------
\* The log buffer

\* Text is a sequence of characters; String.prototype.includes
Contains(text, sub) ==
  \E i \in 0..(Len(text) - Len(sub)) : SubSeq(text, i + 1, i + Len(sub)) = sub

\* The log entries the editor sends (SendLogToServer): message, stackTrace,
\* logType, timestamp (the ISO text of a DateTime, by its number of ticks)
LogEntries ==
  { [message |-> <<"a", "b">>, stackTrace |-> <<"s">>,      logType |-> "Log",     timestamp |-> 2],
    [message |-> <<"b">>,      stackTrace |-> <<>>,         logType |-> "Error",   timestamp |-> 3],
    [message |-> <<"a">>,      stackTrace |-> <<"s", "t">>, logType |-> "Warning", timestamp |-> 4] }

\* handleLogMessage: push, then shift when over capacity
HandleLogMessageKeepAll(buffer, logEntry) == Append(buffer, logEntry)

HandleLogMessageDropNewest(buffer, logEntry) ==
  IF Len(buffer) >= maxLogBufferSize THEN buffer ELSE Append(buffer, logEntry)

HandleLogMessage(buffer, logEntry) ==
  LET pushed == Append(buffer, logEntry)
  IN  IF Len(pushed) > maxLogBufferSize THEN Tail(pushed) ELSE pushed

\* The editor state the server holds before any editorState frame
InitialEditorState ==
  [activeGameObjects |-> <<>>, selectedObjects |-> <<>>, playModeState |-> "Stopped",
   sceneHierarchy |-> <<>>, projectStructure |-> <<>>]

\* What the editor's GetEditorState reports; a path is the sequence of its
\* segments
HostEditorStates ==
  { [activeGameObjects |-> <<"Cube">>, selectedObjects |-> <<>>, playModeState |-> "Playing",
     sceneHierarchy |-> <<"Cube">>,
     projectStructure |->
       [scenes  |-> <<>>,
        prefabs |-> << <<"Packages", "Q.prefab">>, <<"Assets", "B.prefab">> >>,
        scripts |-> << <<"Assets", "A.cs">>, <<"Packages", "P.cs">> >>]] }

\* path.startsWith('Packages/')
StartsWithPackagesNever(path) == FALSE

StartsWithPackages(path) == Len(path) > 1 /\ path[1] = "Packages"

\* message.data[field] || default
FieldOr(data, field, default) == IF field \in DOMAIN data THEN data[field] ELSE default

\* handleUnityMessage, case 'editorState': a new state built from the
\* payload, each absent field at its default, the paths under Packages/
\* filtered out of every list of projectStructure
HandleEditorStateScriptsOnly(data) ==
  LET UserFile(path) == ~StartsWithPackages(path)
      structure == FieldOr(data, "projectStructure", <<>>)
  IN  [activeGameObjects |-> FieldOr(data, "activeGameObjects", <<>>),
       selectedObjects   |-> FieldOr(data, "selectedObjects", <<>>),
       playModeState     |-> FieldOr(data, "playModeState", "Stopped"),
       sceneHierarchy    |-> FieldOr(data, "sceneHierarchy", <<>>),
       projectStructure  |->
         [key \in (DOMAIN structure) \cap {"scripts"} |-> SelectSeq(structure[key], UserFile)]]

HandleEditorStateMerge(data) ==
  LET UserFile(path) == ~StartsWithPackages(path)
      structure == FieldOr(data, "projectStructure", <<>>)
  IN  [activeGameObjects |-> FieldOr(data, "activeGameObjects", editorState.activeGameObjects),
       selectedObjects   |-> FieldOr(data, "selectedObjects", editorState.selectedObjects),
       playModeState     |-> FieldOr(data, "playModeState", editorState.playModeState),
       sceneHierarchy    |-> FieldOr(data, "sceneHierarchy", editorState.sceneHierarchy),
       projectStructure  |->
         [key \in (DOMAIN structure) \cup (DOMAIN editorState.projectStructure) |->
            IF key \in DOMAIN structure
              THEN SelectSeq(structure[key], UserFile)
              ELSE editorState.projectStructure[key]]]

HandleEditorState(data) ==
  LET UserFile(path) == ~StartsWithPackages(path)
      structure == FieldOr(data, "projectStructure", <<>>)
  IN  [activeGameObjects |-> FieldOr(data, "activeGameObjects", <<>>),
       selectedObjects   |-> FieldOr(data, "selectedObjects", <<>>),
       playModeState     |-> FieldOr(data, "playModeState", "Stopped"),
       sceneHierarchy    |-> FieldOr(data, "sceneHierarchy", <<>>),
       projectStructure  |->
         [key \in DOMAIN structure |-> SelectSeq(structure[key], UserFile)]]

NoResponse == [kind |-> "none", tool |-> "none"]

\* The connection check of the CallToolRequest handler: !this.unityConnection
ConnectedAlways(connection) == TRUE

Connected(connection) == connection # Null

----------------------------------------------------------------------------
\* get_editor_state

FormatArgs ==
  {Absent, Given(""), Given("Raw"), Given("scripts only"), Given("no scripts"), Given("bogus")}

ValidFormats == {"Raw", "scripts only", "no scripts"}

\* const format = args?.format as string || 'Raw'
FormatOf(arg) == IF arg = Absent \/ ValueOf(arg) = "" THEN "Raw" ELSE ValueOf(arg)

\* { projectStructure, ...rest } and { scripts, ...otherStructure }
WithoutScripts(state) ==
  [state EXCEPT !.projectStructure =
     [key \in (DOMAIN state.projectStructure) \ {"scripts"} |-> state.projectStructure[key]]]

\* JSON.stringify(responseData) for a valid format: the text of an array
\* (scripts only) or of an object
EditorStateViewNoStructure(state, format) ==
  CASE format = "scripts only" ->
         [array |-> IF "scripts" \in DOMAIN state.projectStructure
                      THEN state.projectStructure["scripts"]
                      ELSE <<>>]
    [] format = "no scripts" -> [object |-> [state EXCEPT !.projectStructure = <<>>]]
    [] OTHER -> [object |-> state]

EditorStateView(state, format) ==
  CASE format = "scripts only" ->
         [array |-> IF "scripts" \in DOMAIN state.projectStructure
                      THEN state.projectStructure["scripts"]
                      ELSE <<>>]
    [] format = "no scripts" -> [object |-> WithoutScripts(state)]
    [] OTHER -> [object |-> state]

\* this.editorState after the 'no scripts' case: it destructures copies
EditorStateAfterDelete(state, format) ==
  IF format = "no scripts" THEN WithoutScripts(state) ELSE state

EditorStateAfterView(state, format) == state

----------------------------------------------------------------------------
\* get_logs

\* The arguments a caller may pass. The handler does not check them against
\* the tool's inputSchema, so counts below the schema's minimum and field
\* names outside its enum reach filterLogs.
KnownFields == {"message", "stackTrace", "logType", "timestamp"}

TypesArgs   == {Absent, Given({}), Given({"Error", "Log"})}
CountArgs   == {Absent, Given(0), Given(-1), Given(1), Given(2), Given(maxLogBufferSize)}
FieldsArgs  == {Absent, Given(<<>>), Given(<<"message", "timestamp">>), Given(<<"message", "foo">>)}
MessageArgs == {Absent, Given(<<>>), Given(<<"a">>)}
StackArgs   == {Absent, Given(<<"s">>)}
AfterArgs   == {Absent, Given(3)}
BeforeArgs  == {Absent, Given(3)}

LogOptions ==
  [types : TypesArgs, count : CountArgs, fields : FieldsArgs,
   messageContains : MessageArgs, stackTraceContains : StackArgs,
   timestampAfter : AfterArgs, timestampBefore : BeforeArgs]

NoOptions ==
  [types |-> Absent, count |-> Absent, fields |-> Absent,
   messageContains |-> Absent, stackTraceContains |-> Absent,
   timestampAfter |-> Absent, timestampBefore |-> Absent]

\* new Date(text): the time value, in whole milliseconds
DateOf(ticks) == ticks \div TicksPerMs

\* a text option is applied when it is given and not the empty string
TruthyText(arg) == arg # Absent /\ ValueOf(arg) # <<>>

\* count: args?.count as number || 100
CountOfWholeBuffer(arg) ==
  IF arg = Absent \/ ValueOf(arg) = 0 THEN maxLogBufferSize ELSE ValueOf(arg)

CountOf(arg) ==
  IF arg = Absent \/ ValueOf(arg) = 0 THEN defaultCount ELSE ValueOf(arg)

\* Array.prototype.slice(start)
Slice(array, start) ==
  LET n == Len(array)
      from == IF start < 0
                THEN (IF n + start < 0 THEN 0 ELSE n + start)
                ELSE (IF start > n THEN n ELSE start)
  IN  SubSeq(array, from + 1, n)

\* the callback of this.logBuffer.filter
KeepsLogExclusive(log, options) ==
  /\ (options.types # Absent => log.logType \in ValueOf(options.types))
  /\ (TruthyText(options.messageContains)
        => Contains(log.message, ValueOf(options.messageContains)))
  /\ (TruthyText(options.stackTraceContains)
        => Contains(log.stackTrace, ValueOf(options.stackTraceContains)))
  /\ (options.timestampAfter # Absent
        => DateOf(log.timestamp) > DateOf(ValueOf(options.timestampAfter)))
  /\ (options.timestampBefore # Absent
        => DateOf(log.timestamp) < DateOf(ValueOf(options.timestampBefore)))

KeepsLog(log, options) ==
  /\ (options.types # Absent => log.logType \in ValueOf(options.types))
  /\ (TruthyText(options.messageContains)
        => Contains(log.message, ValueOf(options.messageContains)))
  /\ (TruthyText(options.stackTraceContains)
        => Contains(log.stackTrace, ValueOf(options.stackTraceContains)))
  /\ (options.timestampAfter # Absent
        => ~(DateOf(log.timestamp) < DateOf(ValueOf(options.timestampAfter))))
  /\ (options.timestampBefore # Absent
        => ~(DateOf(log.timestamp) > DateOf(ValueOf(options.timestampBefore))))

\* the field selection: the named fields that an entry has, for a list of
\* names that is given and not empty
SelectFieldsNever(logs, options) == logs

SelectFields(logs, options) ==
  IF options.fields # Absent /\ Len(ValueOf(options.fields)) # 0
    THEN LET fields == ValueOf(options.fields)
             selected == {fields[i] : i \in 1..Len(fields)} \cap KnownFields
         IN  [i \in 1..Len(logs) |-> [f \in selected |-> logs[i][f]]]
    ELSE logs

\* filterLogs: filter, then slice(-count), then the field selection
FilterLogsLimitFirst(buffer, options) ==
  LET Keep(log) == KeepsLog(log, options)
  IN  SelectFields(SelectSeq(Slice(buffer, 0 - CountOf(options.count)), Keep), options)

FilterLogs(buffer, options) ==
  LET Keep(log) == KeepsLog(log, options)
  IN  SelectFields(Slice(SelectSeq(buffer, Keep), 0 - CountOf(options.count)), options)

\* filterLogs on a buffer that holds an undefined entry (a log frame without
\* payload): the first filter that is given reads a property of the entry,
\* and so does the field selection for an entry that reaches it
FilterLogsThrows(buffer, options) ==
  LET anyFilter == \/ options.types # Absent
                   \/ TruthyText(options.messageContains)
                   \/ TruthyText(options.stackTraceContains)
                   \/ options.timestampAfter # Absent
                   \/ options.timestampBefore # Absent
      sliced == Slice(buffer, 0 - CountOf(options.count))
  IN  IF anyFilter
        THEN \E i \in 1..Len(buffer) : buffer[i] = Undefined
        ELSE /\ options.fields # Absent
             /\ Len(ValueOf(options.fields)) # 0
             /\ \E i \in 1..Len(sliced) : sliced[i] = Undefined

\* this.logBuffer after filterLogs: filter and slice build new arrays
LogBufferAfterSplice(buffer, options) == Slice(buffer, 0 - CountOf(options.count))

LogBufferAfterFilter(buffer, options) == buffer

StateResponse(format, data) ==
  [kind |-> "ok", tool |-> "get_editor_state", format |-> format, data |-> data]

\* what a tool call answers
Thrown(tool, e) == [kind |-> "error", tool |-> tool, error |-> e]
LogsResponse(options, logs) ==
  [kind |-> "ok", tool |-> "get_logs", options |-> options, logs |-> logs]

----------------------------------------------------------------------------
Init ==
  /\ wsOpen = {}
  /\ nextConn = 1
  /\ unityConnection = Null
  /\ toUnity = [k \in ConnIds |-> <<>>]
  /\ fromUnity = [k \in ConnIds |-> <<>>]
  /\ commandResultPromise = Null
  /\ timers = <<>>
  /\ nextCall = 1
  /\ pc = [c \in CallIds |-> "idle"]
  /\ outcome = [c \in CallIds |-> NoOutcome]
  /\ returns = [c \in CallIds |-> 0]
  /\ overlapped = FALSE
  /\ logBuffer = <<>>
  /\ inserted = <<>>
  /\ editorState = InitialEditorState
  /\ response = NoResponse
  /\ startLogIndex = [c \in CallIds |-> 0]
  /\ issuedAt = [c \in CallIds |-> 0]
  /\ commandLogs = [c \in CallIds |-> <<>>]
  /\ HostInit

\* wsServer.on('connection'): the accepted socket becomes unityConnection
Connect ==
  /\ nextConn <= MaxConns
  /\ wsOpen' = wsOpen \cup {nextConn}
  /\ unityConnection' = nextConn
  /\ nextConn' = nextConn + 1
  /\ UNCHANGED <<toUnity, fromUnity, commandResultPromise, timers, nextCall,
                 pc, outcome, returns, overlapped>>
  /\ UNCHANGED facadeVars
  /\ UNCHANGED captureVars
  /\ UNCHANGED hostVars

\* ws.on('close'): unityConnection = null; frames in flight on the socket are lost
CloseAndForget(k) ==
  /\ k \in wsOpen
  /\ wsOpen' = wsOpen \ {k}
  /\ unityConnection' = Null
  /\ toUnity' = [toUnity EXCEPT ![k] = <<>>]
  /\ fromUnity' = [fromUnity EXCEPT ![k] = <<>>]
  /\ logBuffer' = <<>>
  /\ editorState' = InitialEditorState
  /\ UNCHANGED <<nextConn, commandResultPromise, timers, nextCall,
                 pc, outcome, returns, overlapped, inserted, response>>
  /\ UNCHANGED captureVars
  /\ UNCHANGED hostVars

Close(k) ==
  /\ k \in wsOpen
  /\ wsOpen' = wsOpen \ {k}
  /\ unityConnection' = Null
  /\ toUnity' = [toUnity EXCEPT ![k] = <<>>]
  /\ fromUnity' = [fromUnity EXCEPT ![k] = <<>>]
  /\ UNCHANGED <<nextConn, commandResultPromise, timers, nextCall,
                 pc, outcome, returns, overlapped>>
  /\ UNCHANGED facadeVars
  /\ UNCHANGED captureVars
  /\ UNCHANGED hostVars

\* What the caller receives when the handler throws before its await
Throw(c, e) ==
  /\ pc' = [pc EXCEPT ![c] = "returned"]
  /\ outcome' = [outcome EXCEPT ![c] = ErrorOutcome(e)]
  /\ returns' = [returns EXCEPT ![c] = @ + 1]

\* this.commandResultPromise after the handler has sent the frame: the executor
\* of the first promise of Promise.race runs inside the same synchronous block
SlotAfterDispatchDeferred(slot, c) == slot

SlotAfterDispatch(slot, c) == c

\* CallToolRequest execute_editor_command, up to its await
ExecuteEditorCommand(code) ==
  /\ nextCall <= MaxCalls
  /\ LET c == nextCall IN
       /\ nextCall' = nextCall + 1
       /\ overlapped' = (overlapped \/ \E d \in CallIds : pc[d] = "awaiting")
       /\ IF ~Connected(unityConnection)
            THEN /\ Throw(c, "NotConnected")
                 /\ UNCHANGED <<toUnity, commandResultPromise, timers, startLogIndex, issuedAt>>
            ELSE IF ValidateCode(code) # "ok"
            THEN /\ Throw(c, ValidateCode(code))
                 /\ UNCHANGED <<toUnity, commandResultPromise, timers, startLogIndex, issuedAt>>
            ELSE /\ startLogIndex' = [startLogIndex EXCEPT ![c] = Len(logBuffer)]
                 /\ issuedAt' = [issuedAt EXCEPT ![c] = Len(inserted)]
                 /\ toUnity' = [toUnity EXCEPT ![unityConnection] = Append(@, ExecuteFrame(c, code))]
                 /\ commandResultPromise' = SlotAfterDispatch(commandResultPromise, c)
                 /\ timers' = ArmTimer(timers, c)
                 /\ pc' = [pc EXCEPT ![c] = "awaiting"]
                 /\ UNCHANGED <<outcome, returns>>
  /\ UNCHANGED <<wsOpen, nextConn, unityConnection, fromUnity, commandLogs>>
  /\ UNCHANGED hostVars
  /\ UNCHANGED facadeVars

\* The editor's HandleMessage / ExecuteEditorCommand: it runs the command of
\* the frame and sends one commandResult frame back on the socket
HostExecute(k) ==
  /\ k \in wsOpen
  /\ k = nextConn - 1
  /\ toUnity[k] # <<>>
  /\ toUnity' = [toUnity EXCEPT ![k] = Tail(@)]
  /\ fromUnity' = [fromUnity EXCEPT ![k] =
                     Append(@, ResultFrame(Head(toUnity[k]).cmd, Head(toUnity[k]).code))]
  /\ UNCHANGED <<wsOpen, nextConn, unityConnection, commandResultPromise, timers,
                 nextCall, pc, outcome, returns, overlapped>>
  /\ UNCHANGED facadeVars
  /\ UNCHANGED captureVars
  /\ UNCHANGED hostVars

\* handleUnityMessage, case 'commandResult', and the continuation of the
\* call it resolves: st = [slot, calls]
HandleCommandResultAnyCall(slot, st, data) ==
  IF slot # Null
    THEN [slot |-> Null, calls |-> RaceSettle(st, slot, SuccessOutcome(data))]
    ELSE IF \E c \in CallIds : st.pc[c] = "awaiting"
    THEN [slot |-> slot,
          calls |-> RaceSettle(st, CHOOSE c \in CallIds : st.pc[c] = "awaiting",
                               SuccessOutcome(data))]
    ELSE [slot |-> slot, calls |-> st]

HandleCommandResult(slot, st, data) ==
  IF slot # Null
    THEN [slot |-> Null, calls |-> RaceSettle(st, slot, SuccessOutcome(data))]
    ELSE [slot |-> slot, calls |-> st]

\* The continuation of a call after its await: the entries of the buffer from
\* startLogIndex on whose message includes the tag. The filter reads
\* log.message, which throws on an undefined entry; the catch block of the
\* handler turns that into the generic error.
Tag == <<"[UnityMCP]">>

Tagged(log) == Contains(log.message, Tag)

CommandLogsWholeBuffer(buffer, start) == SelectSeq(buffer, Tagged)

CommandLogs(buffer, start) == SelectSeq(Slice(buffer, start), Tagged)

CommandLogsThrows(buffer, start) ==
  \E i \in 1..Len(Slice(buffer, start)) : Slice(buffer, start)[i] = Undefined

\* ws.on('message')
HandleUnityMessage(k) ==
  /\ k \in wsOpen
  /\ fromUnity[k] # <<>>
  /\ LET message == Head(fromUnity[k])
         r == HandleCommandResult(commandResultPromise, CallState, PayloadOf(message))
         resumed == {c \in CallIds : pc[c] = "awaiting" /\ r.calls.pc[c] = "returned"}
         thrown == {c \in resumed : CommandLogsThrows(logBuffer, startLogIndex[c])}
     IN  /\ fromUnity' = [fromUnity EXCEPT ![k] = Tail(@)]
         /\ unityConnection' = IF MessageThrows(message)
                                 THEN ConnectionAfterError(unityConnection)
                                 ELSE unityConnection
         /\ IF FrameType(message) = "commandResult"
              THEN /\ commandResultPromise' = r.slot
                   /\ pc' = r.calls.pc
                   /\ outcome' = [c \in CallIds |->
                                    IF c \in thrown THEN CatchError("TypeError")
                                                    ELSE r.calls.outcome[c]]
                   /\ returns' = r.calls.returns
                   /\ commandLogs' = [c \in CallIds |->
                                        IF c \in resumed \ thrown
                                          THEN CommandLogs(logBuffer, startLogIndex[c])
                                          ELSE commandLogs[c]]
              ELSE UNCHANGED <<commandResultPromise, pc, outcome, returns, commandLogs>>
         /\ IF FrameType(message) = "log"
              THEN /\ logBuffer' = HandleLogMessage(logBuffer, PayloadOf(message))
                   /\ inserted' = Append(inserted, PayloadOf(message))
              ELSE UNCHANGED <<logBuffer, inserted>>
         /\ IF FrameType(message) = "editorState" /\ ~MessageThrows(message)
              THEN editorState' = HandleEditorState(PayloadOf(message))
              ELSE UNCHANGED editorState
  /\ UNCHANGED <<wsOpen, nextConn, toUnity, timers, nextCall, overlapped>>
  /\ UNCHANGED <<response, startLogIndex, issuedAt>>
  /\ UNCHANGED hostVars

\* The setTimeout callback of the oldest armed timer: it rejects its promise
TimerFire ==
  /\ timers # <<>>
  /\ LET c == Head(timers)
         r == RaceSettle(CallState, c, CatchError(TimeoutMessage))
     IN  /\ timers' = Tail(timers)
         /\ pc' = r.pc
         /\ outcome' = r.outcome
         /\ returns' = r.returns
  /\ UNCHANGED <<wsOpen, nextConn, unityConnection, toUnity, fromUnity,
                 commandResultPromise, nextCall, overlapped>>
  /\ UNCHANGED facadeVars
  /\ UNCHANGED captureVars
  /\ UNCHANGED hostVars

\* The calls of Next pass code the editor runs; the server never reads the
\* payload of a commandResult frame. RemoteNext adds code that fails there.
Next ==
  \/ Connect
  \/ \E k \in ConnIds : Close(k)
  \/ \E code \in CodeArgs : ExecuteEditorCommand(code)
  \/ \E k \in ConnIds : HostExecute(k)
  \/ \E k \in ConnIds : HandleUnityMessage(k)
  \/ TimerFire

Spec == Init /\ [][Next]_vars

\* The event loop runs every timer callback that is due
FairSpec == Spec /\ WF_vars(TimerFire)

----------------------------------------------------------------------------
\* The editor's HandleLogMessage / SendLogToServer: one log frame per message
\* logged while the socket is open
RECURSIVE InFlight(_)
InFlight(K) ==
  IF K = {} THEN 0
  ELSE LET k == CHOOSE x \in K : TRUE IN Len(fromUnity[k]) + InFlight(K \ {k})

HostLog(k, entry) ==
  /\ k \in wsOpen
  /\ k = nextConn - 1
  /\ Len(inserted) + InFlight(ConnIds) < MaxLogs
  /\ fromUnity' = [fromUnity EXCEPT ![k] = Append(@, LogFrame(entry))]
  /\ UNCHANGED <<wsOpen, nextConn, unityConnection, toUnity, commandResultPromise, timers,
                 nextCall, pc, outcome, returns, overlapped>>
  /\ UNCHANGED facadeVars
  /\ UNCHANGED captureVars
  /\ UNCHANGED hostVars

\* The editor's StartSendingEditorState: one editorState frame per second
\* while the socket is open
HostSendEditorState(k, state) ==
  /\ k \in wsOpen
  /\ k = nextConn - 1
  /\ Len(inserted) + InFlight(ConnIds) < MaxLogs
  /\ fromUnity' = [fromUnity EXCEPT ![k] = Append(@, EditorStateFrame(state))]
  /\ UNCHANGED <<wsOpen, nextConn, unityConnection, toUnity, commandResultPromise, timers,
                 nextCall, pc, outcome, returns, overlapped>>
  /\ UNCHANGED facadeVars
  /\ UNCHANGED captureVars
  /\ UNCHANGED hostVars

\* CallToolRequest get_editor_state
GetEditorState(format) ==
  /\ IF ~Connected(unityConnection)
       THEN /\ response' = Thrown("get_editor_state", "NotConnected")
            /\ UNCHANGED editorState
       ELSE IF format # Absent /\ ValueOf(format) # "" /\ FormatOf(format) \notin ValidFormats
       THEN /\ response' = Thrown("get_editor_state", "InvalidParams")
            /\ UNCHANGED editorState
       ELSE /\ response' = StateResponse(format, EditorStateView(editorState, FormatOf(format)))
            /\ editorState' = EditorStateAfterView(editorState, FormatOf(format))
  /\ UNCHANGED <<logBuffer, inserted>>
  /\ UNCHANGED cmdVars
  /\ UNCHANGED captureVars
  /\ UNCHANGED hostVars

\* CallToolRequest get_logs
GetLogs(options) ==
  /\ IF ~Connected(unityConnection)
       THEN /\ response' = Thrown("get_logs", "NotConnected")
            /\ UNCHANGED logBuffer
       ELSE IF FilterLogsThrows(logBuffer, options)
       THEN /\ response' = Thrown("get_logs", "TypeError")
            /\ UNCHANGED logBuffer
       ELSE /\ response' = LogsResponse(options, FilterLogs(logBuffer, options))
            /\ logBuffer' = LogBufferAfterFilter(logBuffer, options)
  /\ UNCHANGED <<inserted, editorState>>
  /\ UNCHANGED cmdVars
  /\ UNCHANGED captureVars
  /\ UNCHANGED hostVars

\* The log frames of the editor reaching the server's buffer, over any
\* sequence of connections
LogNext ==
  \/ Connect
  \/ \E k \in ConnIds : Close(k)
  \/ \E k \in ConnIds, entry \in LogEntries : HostLog(k, entry)
  \/ \E k \in ConnIds, state \in HostEditorStates : HostSendEditorState(k, state)
  \/ \E k \in ConnIds : HandleUnityMessage(k)

LogSpec == Init /\ [][LogNext]_vars

\* One get_logs call, with any arguments, on any buffer the editor's log
\* frames can leave behind
RECURSIVE SeqsUpTo(_, _)
SeqsUpTo(S, n) ==
  IF n = 0 THEN {<<>>}
  ELSE LET shorter == SeqsUpTo(S, n - 1)
       IN  shorter \cup {Append(q, x) : q \in shorter, x \in S}

FilterInit ==
  /\ wsOpen = {1}
  /\ nextConn = 2
  /\ unityConnection = 1
  /\ toUnity = [k \in ConnIds |-> <<>>]
  /\ fromUnity = [k \in ConnIds |-> <<>>]
  /\ commandResultPromise = Null
  /\ timers = <<>>
  /\ nextCall = 1
  /\ pc = [c \in CallIds |-> "idle"]
  /\ outcome = [c \in CallIds |-> NoOutcome]
  /\ returns = [c \in CallIds |-> 0]
  /\ overlapped = FALSE
  /\ logBuffer \in SeqsUpTo(LogEntries, maxLogBufferSize)
  /\ inserted = logBuffer
  /\ editorState = InitialEditorState
  /\ response = NoResponse
  /\ startLogIndex = [c \in CallIds |-> 0]
  /\ issuedAt = [c \in CallIds |-> 0]
  /\ commandLogs = [c \in CallIds |-> <<>>]
  /\ HostInit

FilterNext ==
  /\ response = NoResponse
  /\ \E options \in LogOptions : GetLogs(options)

FilterSpec == FilterInit /\ [][FilterNext]_vars

\* The three tools called in any order, with the connection coming and going,
\* on any log buffer and editor state the editor's frames can leave behind
\* (the entries of the buffer in the order of their timestamps); the caller
\* makes no execute_editor_command call while another one is awaiting.
FacadeOptions ==
  {NoOptions}
    \cup {[NoOptions EXCEPT !.types = arg] : arg \in TypesArgs}
    \cup {[NoOptions EXCEPT !.count = arg] : arg \in CountArgs}
    \cup {[NoOptions EXCEPT !.fields = arg] : arg \in FieldsArgs}
    \cup {[NoOptions EXCEPT !.messageContains = arg] : arg \in MessageArgs}
    \cup {[NoOptions EXCEPT !.stackTraceContains = arg] : arg \in StackArgs}
    \cup {[NoOptions EXCEPT !.timestampAfter = arg] : arg \in AfterArgs}
    \cup {[NoOptions EXCEPT !.timestampBefore = arg] : arg \in BeforeArgs}

FacadeBuffers ==
  {buffer \in SeqsUpTo(LogEntries, maxLogBufferSize) :
     \A i \in 1..Len(buffer), j \in 1..Len(buffer) :
       i < j => buffer[i].timestamp < buffer[j].timestamp}

FacadeInit ==
  /\ wsOpen = {1}
  /\ unityConnection = 1
  /\ nextConn = 2
  /\ toUnity = [k \in ConnIds |-> <<>>]
  /\ fromUnity = [k \in ConnIds |-> <<>>]
  /\ commandResultPromise = Null
  /\ timers = <<>>
  /\ nextCall = 1
  /\ pc = [c \in CallIds |-> "idle"]
  /\ outcome = [c \in CallIds |-> NoOutcome]
  /\ returns = [c \in CallIds |-> 0]
  /\ overlapped = FALSE
  /\ logBuffer \in FacadeBuffers
  /\ inserted = logBuffer
  /\ editorState \in {InitialEditorState} \cup {HandleEditorState(state) : state \in HostEditorStates}
  /\ response = NoResponse
  /\ startLogIndex = [c \in CallIds |-> 0]
  /\ issuedAt = [c \in CallIds |-> 0]
  /\ commandLogs = [c \in CallIds |-> <<>>]
  /\ HostInit

FacadeNext ==
  \/ Connect
  \/ \E k \in ConnIds : Close(k)
  \/ /\ \A c \in CallIds : pc[c] # "awaiting"
     /\ ExecuteEditorCommand("valid")
  \/ \E options \in FacadeOptions : GetLogs(options)
  \/ \E format \in FormatArgs : GetEditorState(format)

FacadeSpec == FacadeInit /\ [][FacadeNext]_vars

\* Any peer on the socket, sending any frame: the editor's own frames, frames
\* of an unknown type, frames without payload or with part of it, and text
\* that is not JSON. A socket delivers frames in the order they were sent, so
\* the server routes each frame before the next one is sent.
HostErrorState ==
  [activeGameObjects |-> <<>>, selectedObjects |-> <<>>, playModeState |-> "Unknown",
   sceneHierarchy |-> <<>>,
   projectStructure |-> [scenes |-> <<>>, prefabs |-> <<>>, scripts |-> <<>>]]

PartialState ==
  [selectedObjects |-> <<"Cube">>,
   projectStructure |-> [shaders |-> << <<"Packages", "S.shader">>, <<"Assets", "T.shader">> >>]]

InboundFrames ==
  {EditorStateFrame(state) : state \in HostEditorStates \cup {HostErrorState, PartialState}}
    \cup {LogFrame(CHOOSE entry \in LogEntries : entry.logType = "Error")}
    \cup {[type |-> "editorState"], [type |-> "log"], [type |-> "commandResult"]}
    \cup {[type |-> "selectGameObject", data |-> [name |-> "Cube"]], InvalidJson}

RouteOptions == {NoOptions, [NoOptions EXCEPT !.types = Given({"Error", "Log"})]}

PeerSend(k, frame) ==
  /\ k \in wsOpen
  /\ InFlight(ConnIds) = 0
  /\ Len(inserted) < MaxLogs
  /\ fromUnity' = [fromUnity EXCEPT ![k] = Append(@, frame)]
  /\ UNCHANGED <<wsOpen, nextConn, unityConnection, toUnity, commandResultPromise, timers,
                 nextCall, pc, outcome, returns, overlapped>>
  /\ UNCHANGED facadeVars
  /\ UNCHANGED captureVars
  /\ UNCHANGED hostVars

RouteNext ==
  \/ Connect
  \/ \E k \in ConnIds : Close(k)
  \/ \E k \in ConnIds, frame \in InboundFrames : PeerSend(k, frame)
  \/ \E k \in ConnIds : HandleUnityMessage(k)
  \/ \E options \in RouteOptions : GetLogs(options)

RouteSpec == Init /\ [][RouteNext]_vars

\* The log capture of a command: log frames of the editor arrive before the
\* call, between its issue and its result, and after it. The editor's
\* ExecuteEditorCommand logs "[UnityMCP] Executing command..." itself before
\* it answers; with logging enabled that entry is one of the tagged frames
\* sent here while the call is awaiting. The socket delivers the editor's
\* frames in order, so each log frame is routed before the next frame is sent.
TaggedEntry ==
  [message |-> <<"[UnityMCP]", "Executing">>, stackTrace |-> <<>>,
   logType |-> "Log", timestamp |-> 5]

CaptureEntries == {TaggedEntry, CHOOSE entry \in LogEntries : entry.logType = "Warning"}

\* the editor is connected; nothing was logged and no call was made
CaptureInit ==
  /\ wsOpen = {1}
  /\ unityConnection = 1
  /\ nextConn = 2
  /\ toUnity = [k \in ConnIds |-> <<>>]
  /\ fromUnity = [k \in ConnIds |-> <<>>]
  /\ commandResultPromise = Null
  /\ timers = <<>>
  /\ nextCall = 1
  /\ pc = [c \in CallIds |-> "idle"]
  /\ outcome = [c \in CallIds |-> NoOutcome]
  /\ returns = [c \in CallIds |-> 0]
  /\ overlapped = FALSE
  /\ logBuffer = <<>>
  /\ inserted = <<>>
  /\ editorState = InitialEditorState
  /\ response = NoResponse
  /\ startLogIndex = [c \in CallIds |-> 0]
  /\ issuedAt = [c \in CallIds |-> 0]
  /\ commandLogs = [c \in CallIds |-> <<>>]
  /\ HostInit

\* a call is made once the earlier call is over: its timer has fired and its
\* result, if it came late, was routed
CaptureNext ==
  \/ /\ InFlight(ConnIds) = 0
     /\ \E k \in ConnIds, entry \in CaptureEntries : HostLog(k, entry)
  \/ /\ timers = <<>>
     /\ InFlight(ConnIds) = 0
     /\ \A k \in ConnIds : toUnity[k] = <<>>
     /\ ExecuteEditorCommand("valid")
  \/ \E k \in ConnIds : HostExecute(k)
  \/ \E k \in ConnIds : HandleUnityMessage(k)
  \/ TimerFire

CaptureSpec == CaptureInit /\ [][CaptureNext]_vars

\* The reads made once the first connection has closed: the buffer and the
\* editor state were filled while it was open
RetainNext ==
  \/ Connect
  \/ \E k \in ConnIds : Close(k)
  \/ /\ 1 \notin wsOpen
     /\ \E options \in FacadeOptions : GetLogs(options)
  \/ /\ 1 \notin wsOpen
     /\ \E format \in FormatArgs : GetEditorState(format)

RetainSpec == FacadeInit /\ [][RetainNext]_vars

\* Calls whose code the editor cannot compile or run, besides those of Next
RemoteNext ==
  \/ Connect
  \/ \E k \in ConnIds : Close(k)
  \/ \E code \in CodeArgs \cup FailingCodes : ExecuteEditorCommand(code)
  \/ \E k \in ConnIds : HostExecute(k)
  \/ \E k \in ConnIds : HandleUnityMessage(k)
  \/ TimerFire

RemoteSpec == Init /\ [][RemoteNext]_vars

----------------------------------------------------------------------------
\* Steps, as the properties below recognise them

\* call c is made in this step and gets past the connection check and the
\* argument validation
IssuedStep(c) ==
  /\ pc[c] = "idle"
  /\ pc'[c] # "idle"
  /\ outcome'[c] \notin {ErrorOutcome("NotConnected"), ErrorOutcome("InvalidParams")}

\* the server receives the oldest frame in flight on connection k
RoutedStep(k) ==
  /\ k \in wsOpen
  /\ k \in wsOpen'
  /\ fromUnity[k] # <<>>
  /\ fromUnity'[k] = Tail(fromUnity[k])

\* the timer of call c fires
TimerStep(c) ==
  /\ timers # <<>>
  /\ Head(timers) = c
  /\ timers' = Tail(timers)

Awaiting == {c \in CallIds : pc[c] = "awaiting"}
TimedOut == {c \in CallIds : outcome[c] = ErrorOutcome("Timeout")}

----------------------------------------------------------------------------
\* C1: a call made while another command is still pending is rejected with
\* AlreadyInFlight: it sends no frame and it does not replace the pending slot.
C1_RejectedWhilePending ==
  [][\A c \in CallIds :
       (IssuedStep(c) /\ Awaiting # {})
         => /\ outcome'[c] = ErrorOutcome("AlreadyInFlight")
            /\ toUnity' = toUnity
            /\ commandResultPromise' = commandResultPromise]_vars

\* C2: when a second call (e) is made while a first one (d) is pending, the
\* first still resolves with the commandResult produced for it: when that frame
\* is received while the first call is awaiting, the first call returns its data.
C2_FirstCallUnaffected ==
  [][\A k \in ConnIds, d \in CallIds, e \in CallIds :
       (/\ RoutedStep(k)
        /\ Head(fromUnity[k]).data.cmd = d
        /\ pc[d] = "awaiting"
        /\ d < e
        /\ pc[e] = "awaiting")
         => /\ pc'[d] = "returned"
            /\ outcome'[d] = SuccessOutcome(Head(fromUnity[k]).data)]_vars

\* C3: a call that returns success returns the result the editor produced for
\* that call's own code fragment.
C3_OwnResult ==
  \A c \in CallIds :
    outcome[c].kind = "success" => outcome[c].result.cmd = c

\* C4: when the connection closes while a command is pending, the command is
\* resolved, by that step, with TransportError.
C4_TransportErrorOnClose ==
  [][\A k \in ConnIds, c \in CallIds :
       (k \in wsOpen /\ k \notin wsOpen' /\ pc[c] = "awaiting")
         => /\ pc'[c] = "returned"
            /\ outcome'[c] = ErrorOutcome("TransportError")
            /\ returns'[c] = 1]_vars

\* C5: every call that dispatched a frame eventually returns to its caller.
C5_EveryCallReturns ==
  \A c \in CallIds : (pc[c] = "awaiting") ~> (pc[c] = "returned")

\* a call whose frame or result was lost with its connection has returned
C5_Witness ==
  \E c \in CallIds :
    /\ outcome[c] = ErrorOutcome("Timeout")
    /\ wsOpen = {}
    /\ nextConn > 1

\* C6: each call receives exactly one outcome: once it has returned, no later
\* event gives it a second outcome or changes the one it has.
C6_ExactlyOneOutcome ==
  /\ [](\A c \in CallIds : /\ returns[c] <= 1
                           /\ (pc[c] = "returned") <=> (returns[c] = 1)
                           /\ (pc[c] = "returned") <=> (outcome[c] # NoOutcome))
  /\ [][\A c \in CallIds :
          pc[c] = "returned" => /\ pc'[c] = "returned"
                                /\ outcome'[c] = outcome[c]
                                /\ returns'[c] = returns[c]]_vars

\* a call returned a result, its timer fired afterwards, and another call
\* timed out with its late result frame received after that
C6_Witness ==
  \E c \in CallIds, d \in CallIds :
    /\ outcome[c].kind = "success"
    /\ outcome[d] = ErrorOutcome("Timeout")
    /\ timers = <<>>
    /\ \A k \in ConnIds : toUnity[k] = <<>> /\ fromUnity[k] = <<>>
    /\ wsOpen # {}

\* C7: a dispatched call whose promise no commandResult frame resolved before
\* its timer fires fails with the Timeout error, and with no other outcome.
C7_TimeoutOutcome ==
  [][\A c \in CallIds :
       (TimerStep(c) /\ pc[c] = "awaiting")
         => /\ pc'[c] = "returned"
            /\ outcome'[c] = ErrorOutcome("Timeout")
            /\ returns'[c] = 1]_vars

\* a call timed out while its connection stayed up
C7_Witness ==
  \E c \in CallIds :
    /\ outcome[c] = ErrorOutcome("Timeout")
    /\ unityConnection # Null
    /\ nextConn = 2

\* C8: right after a command fails with Timeout the pending slot is empty, and
\* it stays empty until the next call installs a new one.
C8_SlotClearedOnTimeout ==
  [][/\ \A c \in CallIds :
          (TimerStep(c) /\ pc[c] = "awaiting") => commandResultPromise' = Null
     /\ (Awaiting = {} /\ TimedOut # {} /\ commandResultPromise = Null)
          => (commandResultPromise' = Null \/ nextCall' # nextCall)]_vars

\* C9: a call made after a command has timed out, with the connection up and
\* no other command pending, dispatches its frame and, when it completes with
\* a result, completes with the result the editor returns for it (calls never
\* overlapped: a later call was made after the earlier one had returned).
C9_NextCallAfterTimeout ==
  /\ [][\A c \in CallIds :
          (IssuedStep(c) /\ TimedOut # {} /\ Awaiting = {})
            => /\ pc'[c] = "awaiting"
               /\ \E code \in CodeArgs :
                    toUnity'[unityConnection] =
                      Append(toUnity[unityConnection], ExecuteFrame(c, code))]_vars
  /\ [](\A a \in CallIds, c \in CallIds :
          (/\ ~overlapped
           /\ a < c
           /\ outcome[a] = ErrorOutcome("Timeout")
           /\ outcome[c].kind = "success")
            => outcome[c].result.cmd = c)

\* C10: once the timeout has won the race, the commandResult frame of that
\* command, received afterwards, changes the outcome of no call, a call made
\* after the timeout included (no two calls ever overlapped).
C10_LateResultDiscarded ==
  [][\A k \in ConnIds :
       (/\ RoutedStep(k)
        /\ Head(fromUnity[k]).data.cmd \in TimedOut
        /\ ~overlapped)
         => /\ pc' = pc
            /\ outcome' = outcome
            /\ returns' = returns]_vars

----------------------------------------------------------------------------
\* C12: when the editor reports that the code failed to compile or threw
\* (executionSuccess = false in the commandResult), the call fails with a
\* typed error and never returns a success outcome.
C12_RemoteFailureIsError ==
  \A c \in CallIds :
    outcome[c].kind = "success" => outcome[c].result.executionSuccess

\* C13: the log buffer never holds more than maxLogBufferSize entries.
C13_BufferBounded ==
  Len(logBuffer) <= maxLogBufferSize

\* the buffer is full and entries have been evicted
C13_Witness ==
  /\ Len(logBuffer) = maxLogBufferSize
  /\ Len(inserted) > maxLogBufferSize

\* C14: after n inserts the buffer holds exactly the last min(n, C) inserted
\* entries, in insertion order.
C14_LastInserted ==
  LET n == Len(inserted)
      m == IF n < maxLogBufferSize THEN n ELSE maxLogBufferSize
  IN  logBuffer = SubSeq(inserted, n - m + 1, n)

\* capacity + 1 inserts, the first entry differing from the others, leave all
\* but the first (capacity 3: A, B, C, D give B, C, D)
C14_Witness ==
  /\ Len(inserted) = maxLogBufferSize + 1
  /\ \A i \in 2..Len(inserted) : inserted[i] # inserted[1]
  /\ logBuffer = Tail(inserted)

----------------------------------------------------------------------------
\* The properties of a get_logs answer, stated on the arguments of the call

Answered == response.kind = "ok" /\ response.tool = "get_logs"

\* the last n elements of a sequence, all of them when it has fewer
LastN(seq, n) == SubSeq(seq, (IF Len(seq) > n THEN Len(seq) - n ELSE 0) + 1, Len(seq))

\* an entry satisfies every given option, the timestamps compared as given
SatisfiesExactly(log, o) ==
  /\ (o.types # Absent => log.logType \in ValueOf(o.types))
  /\ (o.messageContains # Absent => Contains(log.message, ValueOf(o.messageContains)))
  /\ (o.stackTraceContains # Absent => Contains(log.stackTrace, ValueOf(o.stackTraceContains)))
  /\ (o.timestampAfter # Absent => log.timestamp >= ValueOf(o.timestampAfter))
  /\ (o.timestampBefore # Absent => log.timestamp <= ValueOf(o.timestampBefore))

\* the same, the timestamps compared by the millisecond they fall in
SatisfiesToMs(log, o) ==
  /\ (o.types # Absent => log.logType \in ValueOf(o.types))
  /\ (o.messageContains # Absent => Contains(log.message, ValueOf(o.messageContains)))
  /\ (o.stackTraceContains # Absent => Contains(log.stackTrace, ValueOf(o.stackTraceContains)))
  /\ (o.timestampAfter # Absent
        => log.timestamp \div TicksPerMs >= ValueOf(o.timestampAfter) \div TicksPerMs)
  /\ (o.timestampBefore # Absent
        => log.timestamp \div TicksPerMs <= ValueOf(o.timestampBefore) \div TicksPerMs)

MatchingToMs(buffer, o) ==
  LET Test(log) == SatisfiesToMs(log, o) IN SelectSeq(buffer, Test)

MatchingExactly(buffer, o) ==
  LET Test(log) == SatisfiesExactly(log, o) IN SelectSeq(buffer, Test)

\* the limit of the call cuts nothing and no field selection is asked for
Unlimited(o) ==
  /\ o.count # Absent
  /\ ValueOf(o.count) >= Len(logBuffer)
  /\ o.fields = Absent

\* C15 (as stated): get_logs with no filter options returns the entire buffer,
\* every entry unmodified and in insertion order.
C15_NoOptionsWholeBuffer ==
  (Answered /\ response.options = NoOptions) => response.logs = logBuffer

\* C15 (amended): get_logs with no options returns the last defaultCount (100)
\* entries of the buffer, unmodified and in insertion order: the entire buffer
\* when it holds no more than defaultCount entries.
C15_NoOptionsLastDefault ==
  (Answered /\ response.options = NoOptions)
    => /\ response.logs = LastN(logBuffer, defaultCount)
       /\ (Len(logBuffer) <= defaultCount => response.logs = logBuffer)

\* a full buffer answered by its last defaultCount entries
C15_Witness ==
  /\ Answered
  /\ response.options = NoOptions
  /\ Len(logBuffer) = maxLogBufferSize
  /\ response.logs = Tail(logBuffer)
  /\ response.logs # logBuffer

\* C17: with a limit N >= 1 the answer is the last N, in insertion order, of
\* the entries matching all other options (all of them when fewer than N
\* match): the limit is applied after the other filters.
C17_LimitAfterFilters ==
  (/\ Answered
   /\ response.options.count # Absent
   /\ ValueOf(response.options.count) >= 1
   /\ response.options.fields = Absent)
    => response.logs =
         LastN(MatchingToMs(logBuffer, response.options), ValueOf(response.options.count))

\* limit 1 with a filter that the newest entry of the buffer fails and an
\* older one passes: limiting first would answer nothing
C17_Witness ==
  /\ Answered
  /\ response.options.count = Given(1)
  /\ response.options.fields = Absent
  /\ Len(response.logs) = 1
  /\ Len(logBuffer) = maxLogBufferSize
  /\ response.logs[1] # logBuffer[Len(logBuffer)]

\* C18 (as stated): before the limit is applied, the answer is exactly the
\* buffer entries satisfying every given option, timestamp >= after and
\* <= before, in buffer order.
C18_ExactlyTheMatching ==
  (Answered /\ Unlimited(response.options))
    => response.logs = MatchingExactly(logBuffer, response.options)

\* C18 (amended): the same with the timestamps compared as Date values, that
\* is by the millisecond each falls in: an entry stamped less than a
\* millisecond before `after` (after `before`) is kept.
C18_MatchingToMs ==
  (Answered /\ Unlimited(response.options))
    => response.logs = MatchingToMs(logBuffer, response.options)

\* an answer that keeps an entry stamped at the bound itself and leaves
\* another entry out
C18_Witness ==
  /\ Answered
  /\ Unlimited(response.options)
  /\ response.options.timestampAfter # Absent
  /\ \E i \in 1..Len(response.logs) :
       response.logs[i].timestamp = ValueOf(response.options.timestampAfter)
  /\ Len(response.logs) < Len(logBuffer)
  /\ response.logs # <<>>

\* C19 (as stated): when a set of field names is given, every returned entry
\* has exactly the named fields, for every given set (of known names); when
\* fields is absent, every entry has all four fields.
C19_ExactlyNamedFields ==
  Answered =>
    \A i \in 1..Len(response.logs) :
      LET given == response.options.fields
          names == {ValueOf(given)[j] : j \in 1..Len(ValueOf(given))}
      IN  /\ (given = Absent => DOMAIN response.logs[i] = KnownFields)
          /\ ((given # Absent /\ names \subseteq KnownFields)
                => DOMAIN response.logs[i] = names)

\* C19 (amended): for every non-empty list of known field names, every
\* returned entry has exactly the named fields, with the entry's values; when
\* fields is absent or the empty list, every entry has all four fields.
C19_NamedFieldsUnlessEmpty ==
  Answered =>
    \A i \in 1..Len(response.logs) :
      LET given == response.options.fields
          names == {ValueOf(given)[j] : j \in 1..Len(ValueOf(given))}
      IN  /\ ((given = Absent \/ names = {}) => DOMAIN response.logs[i] = KnownFields)
          /\ ((given # Absent /\ names # {} /\ names \subseteq KnownFields)
                => /\ DOMAIN response.logs[i] = names
                   /\ \E log \in LogEntries : \A f \in names : response.logs[i][f] = log[f])

\* an answer whose entries hold the two named fields only
C19_Witness ==
  /\ Answered
  /\ response.options.fields = Given(<<"message", "timestamp">>)
  /\ Len(response.logs) >= 2
  /\ \A i \in 1..Len(response.logs) : DOMAIN response.logs[i] = {"message", "timestamp"}

\* C20: a get_logs call whose fields name an unknown field is rejected with a
\* validation error; it is never answered.
C20_UnknownFieldRejected ==
  (Answered /\ response.options.fields # Absent)
    => \A j \in 1..Len(ValueOf(response.options.fields)) :
         ValueOf(response.options.fields)[j] \in KnownFields

----------------------------------------------------------------------------
\* A get_logs or get_editor_state call is answered in this step
ReadStep == response' # response

\* an execute_editor_command call is made in this step
ExecuteStep == nextCall' # nextCall

\* the state of the server: everything but the answers given to the callers
ServerUnchanged ==
  /\ unityConnection' = unityConnection
  /\ commandResultPromise' = commandResultPromise
  /\ timers' = timers
  /\ toUnity' = toUnity
  /\ fromUnity' = fromUnity
  /\ logBuffer' = logBuffer
  /\ editorState' = editorState

\* C11: while no connection is registered, every call of the three tools
\* fails with the not-connected error; execute_editor_command sends no frame
\* and installs no pending slot, and no server state changes.
C11_NotConnected ==
  [][unityConnection = Null =>
       /\ ReadStep => (/\ response' \in {Thrown("get_logs", "NotConnected"),
                                        Thrown("get_editor_state", "NotConnected")}
                       /\ ServerUnchanged)
       /\ ExecuteStep => (/\ outcome'[nextCall] = ErrorOutcome("NotConnected")
                          /\ pc'[nextCall] = "returned"
                          /\ ServerUnchanged)]_vars

\* with the connection closed and a buffer that holds entries, a read and an
\* execute_editor_command call have both failed with the not-connected error
C11_Witness ==
  /\ unityConnection = Null
  /\ response = Thrown("get_logs", "NotConnected")
  /\ outcome[1] = ErrorOutcome("NotConnected")
  /\ logBuffer # <<>>
  /\ commandResultPromise = Null
  /\ \A k \in ConnIds : toUnity[k] = <<>>

\* C16: get_editor_state and get_logs are pure reads: a call changes neither
\* the log buffer, nor the editor state, nor the pending slot, nor the
\* connection, and the same call on the state it leaves gives the same answer.
C16_PureReads ==
  [][ReadStep =>
       /\ logBuffer' = logBuffer
       /\ editorState' = editorState
       /\ commandResultPromise' = commandResultPromise
       /\ unityConnection' = unityConnection
       /\ (response'.kind = "ok" /\ response'.tool = "get_logs")
            => response'.logs = FilterLogs(logBuffer', response'.options)
       /\ (response'.kind = "ok" /\ response'.tool = "get_editor_state")
            => response'.data = EditorStateView(editorState', FormatOf(response'.format))]_vars

\* a get_logs call with a limit answered with part of the buffer while a
\* command is pending
C16_Witness ==
  /\ response.kind = "ok"
  /\ response.tool = "get_logs"
  /\ response.options.count = Given(1)
  /\ Len(logBuffer) = maxLogBufferSize
  /\ Len(response.logs) = 1
  /\ commandResultPromise # Null

----------------------------------------------------------------------------
\* the frame a step appends for the editor on connection k
SentFrame(k) == toUnity'[k][Len(toUnity'[k])]

\* C21: with the editor connected, execute_editor_command with a missing,
\* non-string, empty or whitespace-only code fails with InvalidParams, sends
\* no frame and leaves the pending slot unchanged: a call either fails that
\* way or sends a frame whose code is none of these.
C21_InvalidCodeRejected ==
  [][(ExecuteStep /\ unityConnection # Null) =>
       \/ /\ outcome'[nextCall] = ErrorOutcome("InvalidParams")
          /\ pc'[nextCall] = "returned"
          /\ toUnity' = toUnity
          /\ commandResultPromise' = commandResultPromise
          /\ timers' = timers
       \/ /\ pc'[nextCall] = "awaiting"
          /\ Len(toUnity'[unityConnection]) = Len(toUnity[unityConnection]) + 1
          /\ SentFrame(unityConnection).cmd = nextCall
          /\ SentFrame(unityConnection).code
               \notin {"missing", "nonString", "empty", "blank"}]_vars

\* a call failed with InvalidParams while an earlier command was pending: the
\* slot still holds the earlier call and only its frame was sent
C21_Witness ==
  /\ unityConnection = 1
  /\ pc[1] = "awaiting"
  /\ outcome[2] = ErrorOutcome("InvalidParams")
  /\ commandResultPromise = 1
  /\ toUnity[1] = <<ExecuteFrame(1, "valid")>>
  /\ timers = <<1>>

\* C28: a commandResult frame routed while no command is pending is
\* discarded: it changes no state (no call's outcome, the slot, the timers,
\* the log buffer, the editor state), so no later call is resolved by it.
C28_StaleResultDiscarded ==
  [][\A k \in ConnIds :
       (/\ RoutedStep(k)
        /\ Head(fromUnity[k]).type = "commandResult"
        /\ commandResultPromise = Null)
         => /\ pc' = pc
            /\ outcome' = outcome
            /\ returns' = returns
            /\ commandResultPromise' = Null
            /\ timers' = timers
            /\ toUnity' = toUnity
            /\ unityConnection' = unityConnection
            /\ logBuffer' = logBuffer
            /\ editorState' = editorState]_vars

\* two results were routed with the slot empty while a call was awaiting, and
\* that call is still awaiting its own timer
C28_Witness ==
  /\ pc[1] = "awaiting"
  /\ outcome[2].kind = "success"
  /\ outcome[3].kind = "success"
  /\ commandResultPromise = Null
  /\ timers = <<1, 2, 3>>
  /\ \A k \in ConnIds : toUnity[k] = <<>> /\ fromUnity[k] = <<>>
  /\ unityConnection # Null

----------------------------------------------------------------------------
\* C25: get_editor_state answers, for the editor state the server holds: in
\* format Raw the whole state; in format 'scripts only' exactly the path list
\* of the scripts category (the empty list when there is none); in format
\* 'no scripts' the state with the scripts category removed and every other
\* field and category as it is.
C25_SnapshotModes ==
  (response.kind = "ok" /\ response.tool = "get_editor_state") =>
    LET structure == editorState.projectStructure
    IN  /\ response.format \in {Absent, Given("Raw")}
             => response.data = [object |-> editorState]
        /\ response.format = Given("scripts only")
             => response.data =
                  [array |-> IF "scripts" \in DOMAIN structure
                               THEN structure["scripts"] ELSE <<>>]
        /\ response.format = Given("no scripts")
             => /\ DOMAIN response.data = {"object"}
                /\ DOMAIN response.data.object = DOMAIN editorState
                /\ \A field \in (DOMAIN editorState) \ {"projectStructure"} :
                     response.data.object[field] = editorState[field]
                /\ DOMAIN response.data.object.projectStructure
                     = (DOMAIN structure) \ {"scripts"}
                /\ \A key \in (DOMAIN structure) \ {"scripts"} :
                     response.data.object.projectStructure[key] = structure[key]

\* 'no scripts' answered on a state that holds scripts and prefabs: the
\* prefabs are in the answer, the scripts are not
C25_Witness ==
  /\ response.kind = "ok"
  /\ response.tool = "get_editor_state"
  /\ response.format = Given("no scripts")
  /\ "scripts" \in DOMAIN editorState.projectStructure
  /\ editorState.projectStructure["scripts"] # <<>>
  /\ "prefabs" \in DOMAIN response.data.object.projectStructure
  /\ response.data.object.projectStructure["prefabs"] # <<>>
  /\ "scripts" \notin DOMAIN response.data.object.projectStructure

----------------------------------------------------------------------------
\* the paths of a list that are not under Packages/, in their order
RECURSIVE UserPaths(_)
UserPaths(paths) ==
  IF paths = <<>> THEN <<>>
  ELSE IF Len(Head(paths)) > 1 /\ Head(paths)[1] = "Packages"
         THEN UserPaths(Tail(paths))
         ELSE <<Head(paths)>> \o UserPaths(Tail(paths))

\* an editorState frame whose payload is an object
SnapshotFrame(message) ==
  /\ FrameType(message) = "editorState"
  /\ "data" \in DOMAIN message

\* C22: in every reachable state no list of the editor state's
\* projectStructure holds a path under Packages/.
C22_NoPackagesPath ==
  \A key \in DOMAIN editorState.projectStructure :
    \A i \in 1..Len(editorState.projectStructure[key]) :
      editorState.projectStructure[key][i][1] # "Packages"

\* the state holds the user's script and prefab of a frame that also listed
\* paths under Packages/
C22_Witness ==
  /\ "scripts" \in DOMAIN editorState.projectStructure
  /\ editorState.projectStructure["scripts"] = << <<"Assets", "A.cs">> >>
  /\ editorState.projectStructure["prefabs"] = << <<"Assets", "B.prefab">> >>

\* C23: routing an editorState frame keeps, in every list of the frame's
\* projectStructure, exactly the paths that are not under Packages/, in their
\* order: no other path and no list is dropped.
C23_KeepsUserPaths ==
  [][\A k \in ConnIds :
       (/\ RoutedStep(k)
        /\ SnapshotFrame(Head(fromUnity[k]))
        /\ "projectStructure" \in DOMAIN Head(fromUnity[k]).data)
         => LET structure == Head(fromUnity[k]).data.projectStructure
            IN  /\ DOMAIN editorState'.projectStructure = DOMAIN structure
                /\ \A key \in DOMAIN structure :
                     editorState'.projectStructure[key] = UserPaths(structure[key])]_vars

\* a list that only the partial frame names is held with its user path, the
\* path under Packages/ gone
C23_Witness ==
  /\ DOMAIN editorState.projectStructure = {"shaders"}
  /\ editorState.projectStructure["shaders"] = << <<"Assets", "T.shader">> >>

\* C24: after an editorState frame is routed the state holds only data of
\* that frame: a field absent from the frame has its default, and no field or
\* list of the state held before survives.
C24_ReplacedWholesale ==
  [][\A k \in ConnIds :
       (RoutedStep(k) /\ SnapshotFrame(Head(fromUnity[k])))
         => LET data == Head(fromUnity[k]).data
                Default(field) == IF field = "playModeState" THEN "Stopped" ELSE <<>>
            IN  /\ \A field \in {"activeGameObjects", "selectedObjects",
                                 "playModeState", "sceneHierarchy"} :
                      editorState'[field] =
                        IF field \in DOMAIN data THEN data[field] ELSE Default(field)
                /\ DOMAIN editorState'.projectStructure =
                     IF "projectStructure" \in DOMAIN data
                       THEN DOMAIN data.projectStructure ELSE {}]_vars

\* the partial frame was routed after a full one: the fields it does not
\* name are at their defaults
C24_Witness ==
  /\ editorState.selectedObjects = <<"Cube">>
  /\ editorState.activeGameObjects = <<>>
  /\ editorState.playModeState = "Stopped"
  /\ DOMAIN editorState.projectStructure = {"shaders"}
  /\ logBuffer # <<>>

\* C26: no frame ends the connection or the receive path: after any frame is
\* taken off the socket the connection is still open and registered, and a
\* frame in flight on an open connection can always be routed.
C26_ConnectionSurvivesFrames ==
  /\ [][\A k \in ConnIds :
          RoutedStep(k) => /\ wsOpen' = wsOpen
                            /\ unityConnection' = unityConnection]_vars
  /\ [](\A k \in wsOpen : fromUnity[k] # <<>> => ENABLED HandleUnityMessage(k))

\* a well-formed log frame was routed after a log frame without payload, and
\* text that is not JSON is in flight on the registered connection
C26_Witness ==
  /\ Len(inserted) = 2
  /\ inserted[1] = Undefined
  /\ inserted[2] \in LogEntries
  /\ unityConnection \in wsOpen
  /\ fromUnity[unityConnection] = <<InvalidJson>>

\* C27: a frame of an unknown type, a text that is not JSON, and a frame of a
\* known type without payload are discarded: the editor state, the log buffer
\* and the pending slot are the same after it.
C27_MalformedDiscarded ==
  [][\A k \in ConnIds :
       (/\ RoutedStep(k)
        /\ \/ FrameType(Head(fromUnity[k])) \notin {"editorState", "commandResult", "log"}
           \/ "data" \notin DOMAIN Head(fromUnity[k]))
         => /\ editorState' = editorState
            /\ logBuffer' = logBuffer
            /\ commandResultPromise' = commandResultPromise]_vars

----------------------------------------------------------------------------
\* call c returns its success answer in this step
AnsweredStep(c) ==
  /\ pc[c] = "awaiting"
  /\ pc'[c] = "returned"
  /\ outcome'[c].kind = "success"

\* the tagged entries inserted since call c was issued, in insertion order
TaggedWindow(c) == SelectSeq(SubSeq(inserted, issuedAt[c] + 1, Len(inserted)), Tagged)

\* C29: when a call returns successfully its captured logs are the tagged
\* entries inserted between its issue and its result, all of them, whatever
\* the fill level of the buffer at issue time.
C29_CapturesWindow ==
  [][\A c \in CallIds : AnsweredStep(c) => commandLogs'[c] = TaggedWindow(c)]_vars

\* C30: the captured logs of a call hold no entry inserted before the call
\* was issued: they are the last tagged entries inserted since the issue, in
\* order.
C30_NothingBeforeIssue ==
  [][\A c \in CallIds :
       AnsweredStep(c) =>
         \E n \in 0..Len(TaggedWindow(c)) : commandLogs'[c] = LastN(TaggedWindow(c), n)]_vars

\* a call issued after a tagged entry was inserted, with a tagged entry
\* inserted while it was awaiting, returned the latter only
C30_Witness ==
  /\ pc[1] = "returned"
  /\ outcome[1].kind = "success"
  /\ issuedAt[1] = 1
  /\ inserted = <<TaggedEntry, TaggedEntry>>
  /\ commandLogs[1] = <<TaggedEntry>>

----------------------------------------------------------------------------
(***************************************************************************)
(* The editor plugin. Its callbacks and the continuations of its async     *)
(* methods run on the editor's main thread, one at a time: each is one     *)
(* action. The transport is the environment: a connect attempt succeeds,   *)
(* fails or is cancelled by its 5 s token; an open socket fails or         *)
(* receives the peer's close. The frames the plugin receives and sends are *)
(* those of HostExecute, HostLog and HostSendEditorState above.            *)
(***************************************************************************)
serverVars == <<cmdVars, facadeVars, captureVars>>

\* webSocket?.State
StateOf(socket, states) == IF socket = Null THEN "None" ELSE states[socket]

\* the guard of ConnectToServer: "Already connected or connecting"
AlreadyConnectedOpenOnly(socket, states) ==
  socket # Null /\ states[socket] = "Open"

AlreadyConnected(socket, states) ==
  socket # Null /\ states[socket] \in {"Connecting", "Open"}

\* new ClientWebSocket(): the next socket never used
FreeSockets == {s \in SocketIds : socketState[s] = "None"}
NextSocket == CHOOSE s \in FreeSockets : \A t \in FreeSockets : s <= t

\* ConnectToServer up to its await: nothing when the guard holds, else a new
\* socket replaces webSocket and ConnectAsync starts on it
ConnectToServer ==
  IF AlreadyConnected(webSocket, socketState)
    THEN UNCHANGED <<webSocket, socketState>>
    ELSE /\ FreeSockets # {}
         /\ webSocket' = NextSocket
         /\ socketState' = [socketState EXCEPT ![NextSocket] = "Connecting"]

\* EditorApplication.delayCall of the static constructor
HostStartup ==
  /\ ~hostStarted
  /\ hostStarted' = TRUE
  /\ ConnectToServer
  /\ UNCHANGED <<isConnected, reconnectTimer, receiving, sending, sendTarget>>
  /\ UNCHANGED serverVars

\* the button of the debug window
RetryConnection ==
  /\ hostStarted
  /\ ConnectToServer
  /\ UNCHANGED <<isConnected, reconnectTimer, hostStarted, receiving, sending, sendTarget>>
  /\ UNCHANGED serverVars

\* EditorApplication.update, when its condition holds
Update ==
  /\ ~isConnected
  /\ StateOf(webSocket, socketState) # "Open"
  /\ IF reconnectTimer + 1 >= reconnectInterval
       THEN /\ ConnectToServer
            /\ reconnectTimer' = 0
       ELSE /\ reconnectTimer' = reconnectTimer + 1
            /\ UNCHANGED <<webSocket, socketState>>
  /\ UNCHANGED <<isConnected, hostStarted, receiving, sending, sendTarget>>
  /\ UNCHANGED serverVars

\* ConnectAsync succeeds; the rest of ConnectToServer runs: isConnected = true,
\* StartReceiving up to its ReceiveAsync, StartSendingEditorState up to its
\* SendAsync
ConnectSucceeds(s) ==
  /\ socketState[s] = "Connecting"
  /\ socketState' = [socketState EXCEPT ![s] = "Open"]
  /\ isConnected' = TRUE
  /\ receiving' = [receiving EXCEPT ![s] = "awaiting"]
  /\ sending' = [sending EXCEPT ![s] = "sending"]
  /\ sendTarget' = [sendTarget EXCEPT ![s] = s]
  /\ UNCHANGED <<webSocket, reconnectTimer, hostStarted>>
  /\ UNCHANGED serverVars

\* the state of a socket whose ConnectAsync failed or was cancelled by the
\* 5 s token
StateAfterCancelStillConnecting == "Connecting"

StateAfterCancel == "Closed"

\* ConnectAsync throws (OperationCanceledException after 5 s, or a
\* WebSocketException): the catch blocks set isConnected = false
ConnectFails(s) ==
  /\ socketState[s] = "Connecting"
  /\ socketState' = [socketState EXCEPT ![s] = StateAfterCancel]
  /\ isConnected' = FALSE
  /\ UNCHANGED <<webSocket, reconnectTimer, hostStarted, receiving, sending, sendTarget>>
  /\ UNCHANGED serverVars

\* the transport of an open socket fails: its pending operations will throw
TransportError(s) ==
  /\ socketState[s] \in {"Open", "CloseReceived"}
  /\ socketState' = [socketState EXCEPT ![s] = "Aborted"]
  /\ UNCHANGED <<webSocket, isConnected, reconnectTimer, hostStarted,
                 receiving, sending, sendTarget>>
  /\ UNCHANGED serverVars

\* StartReceiving: ReceiveAsync returns the peer's close message; the message
\* is not text and the loop condition (State == Open) ends the loop
ReceiveClose(s) ==
  /\ receiving[s] = "awaiting"
  /\ socketState[s] = "Open"
  /\ socketState' = [socketState EXCEPT ![s] = "CloseReceived"]
  /\ receiving' = [receiving EXCEPT ![s] = "ended"]
  /\ UNCHANGED <<webSocket, isConnected, reconnectTimer, hostStarted, sending, sendTarget>>
  /\ UNCHANGED serverVars

\* isConnected after the catch block of a loop
AfterLoopError(connected, socket, states) == FALSE

\* StartReceiving: ReceiveAsync throws; the catch block sets isConnected = false
ReceiveThrows(s) ==
  /\ receiving[s] = "awaiting"
  /\ socketState[s] = "Aborted"
  /\ receiving' = [receiving EXCEPT ![s] = "ended"]
  /\ isConnected' = AfterLoopError(isConnected, webSocket, socketState)
  /\ UNCHANGED <<webSocket, socketState, reconnectTimer, hostStarted, sending, sendTarget>>
  /\ UNCHANGED serverVars

\* StartSendingEditorState: SendAsync ends. It throws on a failed transport
\* (the catch block sets isConnected = false and breaks), else Task.Delay starts
SendAsyncEnds(s) ==
  /\ sending[s] = "sending"
  /\ IF socketState[sendTarget[s]] = "Aborted"
       THEN /\ sending' = [sending EXCEPT ![s] = "ended"]
            /\ sendTarget' = [sendTarget EXCEPT ![s] = Null]
            /\ isConnected' = AfterLoopError(isConnected, webSocket, socketState)
       ELSE /\ sending' = [sending EXCEPT ![s] = "delaying"]
            /\ UNCHANGED <<isConnected, sendTarget>>
  /\ UNCHANGED <<webSocket, socketState, reconnectTimer, hostStarted, receiving>>
  /\ UNCHANGED serverVars

\* the loop condition of StartSendingEditorState: both reads are of the
\* static fields, whatever connection the loop was started for
KeepsSending(s) ==
  isConnected /\ StateOf(webSocket, socketState) = "Open"

\* StartSendingEditorState: Task.Delay(1000) ends; the loop condition is read
\* and either the loop ends or SendAsync is called on webSocket
DelayEnds(s) ==
  /\ sending[s] = "delaying"
  /\ IF KeepsSending(s)
       THEN /\ sending' = [sending EXCEPT ![s] = "sending"]
            /\ sendTarget' = [sendTarget EXCEPT ![s] = webSocket]
       ELSE /\ sending' = [sending EXCEPT ![s] = "ended"]
            /\ sendTarget' = [sendTarget EXCEPT ![s] = Null]
  /\ UNCHANGED <<webSocket, socketState, isConnected, reconnectTimer, hostStarted, receiving>>
  /\ UNCHANGED serverVars

HostNext ==
  \/ HostStartup
  \/ RetryConnection
  \/ Update
  \/ \E s \in SocketIds : ConnectSucceeds(s)
  \/ \E s \in SocketIds : ConnectFails(s)
  \/ \E s \in SocketIds : TransportError(s)
  \/ \E s \in SocketIds : ReceiveClose(s)
  \/ \E s \in SocketIds : ReceiveThrows(s)
  \/ \E s \in SocketIds : SendAsyncEnds(s)
  \/ \E s \in SocketIds : DelayEnds(s)

HostSpec == Init /\ [][HostNext]_vars

\* The connect attempts alone: every loop of a failed connection has ended
\* when the next attempt is started or the timer runs
LoopsEnded ==
  \A s \in SocketIds :
    socketState[s] = "Aborted" => (receiving[s] = "ended" /\ sending[s] = "ended")

AttemptNext ==
  \/ LoopsEnded /\ HostStartup
  \/ LoopsEnded /\ RetryConnection
  \/ LoopsEnded /\ Update
  \/ \E s \in SocketIds : ConnectSucceeds(s)
  \/ \E s \in SocketIds : ConnectFails(s)
  \/ \E s \in SocketIds : TransportError(s)
  \/ \E s \in SocketIds : ReceiveThrows(s)
  \/ \E s \in SocketIds : SendAsyncEnds(s)
  \/ \E s \in SocketIds : DelayEnds(s)

\* The token of ConnectToServer cancels ConnectAsync after 5 s: an attempt
\* that has not succeeded fails
AttemptFairSpec ==
  /\ Init
  /\ [][AttemptNext]_vars
  /\ WF_vars(\E s \in SocketIds : ConnectFails(s))

\* The editor calls Update on every tick and runs every continuation that is
\* ready; a connect attempt ends by its 5 s token at the latest
HostFairSpec ==
  /\ HostSpec
  /\ WF_vars(Update)
  /\ WF_vars(\E s \in SocketIds : ConnectFails(s))
  /\ WF_vars(\E s \in SocketIds : ReceiveThrows(s))
  /\ WF_vars(\E s \in SocketIds : SendAsyncEnds(s))
  /\ WF_vars(\E s \in SocketIds : DelayEnds(s))

----------------------------------------------------------------------------
\* the close event of connection k
CloseStep(k) ==
  /\ k \in wsOpen
  /\ k \notin wsOpen'

\* C35: when the result won the race, the later firing of the call's timer
\* changes no call's outcome or position, delivers nothing to a caller and
\* leaves the pending slot alone.
C35_LateTimerNoEffect ==
  [][\A c \in CallIds :
       (TimerStep(c) /\ outcome[c].kind = "success")
         => /\ pc' = pc
            /\ outcome' = outcome
            /\ returns' = returns
            /\ commandResultPromise' = commandResultPromise
            /\ toUnity' = toUnity]_vars

\* the timer of call 1 has fired after its result: call 1 keeps its success,
\* call 2 is still awaiting with its resolver in the slot
C35_Witness ==
  /\ outcome[1].kind = "success"
  /\ returns[1] = 1
  /\ timers = <<2>>
  /\ pc[2] = "awaiting"
  /\ commandResultPromise = 2

\* C36: whenever a connection of the editor is open, unityConnection is an
\* open connection.
C36_RegisteredWhileOpen == wsOpen # {} => unityConnection \in wsOpen

\* C39: the step that sends the executeEditorCommand frame installs the
\* resolver in the slot and routes no inbound frame; so the result of the only
\* call made finds the slot installed and is delivered to it.
C39_DispatchInstallsSlot ==
  /\ [][(ExecuteStep /\ toUnity' # toUnity)
          => /\ commandResultPromise' = nextCall
             /\ pc'[nextCall] = "awaiting"
             /\ fromUnity' = fromUnity]_vars
  /\ [][\A k \in ConnIds :
          (/\ RoutedStep(k)
           /\ FrameType(Head(fromUnity[k])) = "commandResult"
           /\ nextCall = 2
           /\ pc[1] = "awaiting")
            => /\ commandResultPromise = 1
               /\ outcome'[1].kind = "success"
               /\ commandResultPromise' = Null]_vars

\* the only call made was answered with the result of its command
C39_Witness ==
  /\ nextCall = 2
  /\ outcome[1].kind = "success"
  /\ outcome[1].result.cmd = 1
  /\ commandResultPromise = Null

\* C40: a close event changes the registered connection only: the log buffer
\* and the editor state are as before, and the reads made after the first
\* connection has closed answer from them.
C40_CloseKeepsContent ==
  /\ [][\A k \in ConnIds :
          CloseStep(k) => /\ logBuffer' = logBuffer
                          /\ editorState' = editorState
                          /\ unityConnection' = Null
                          /\ response' = response
                          /\ commandResultPromise' = commandResultPromise]_vars
  /\ []((response.kind = "ok" /\ response.tool = "get_logs")
          => response.logs = FilterLogs(logBuffer, response.options))
  /\ []((response.kind = "ok" /\ response.tool = "get_editor_state"
           /\ response.format = Absent)
          => response.data = [object |-> editorState])

\* after the close of connection 1 and a new connection, get_logs answered
\* with entries of the buffer, which still has its three entries
C40_Witness ==
  /\ wsOpen = {2}
  /\ unityConnection = 2
  /\ response.kind = "ok"
  /\ response.tool = "get_logs"
  /\ response.options = NoOptions
  /\ Len(response.logs) = defaultCount
  /\ Len(logBuffer) = maxLogBufferSize

----------------------------------------------------------------------------
\* a connect attempt starts in this step, on socket s
AttemptStep(s) ==
  /\ socketState[s] = "None"
  /\ socketState'[s] = "Connecting"

\* the sockets with a connection open or being opened
ActiveSockets == {s \in SocketIds : socketState[s] \in {"Connecting", "Open"}}

\* the publication loops that have not ended
RunningLoops == {s \in SocketIds : sending[s] \in {"sending", "delaying"}}

\* the connection of webSocket was lost and a socket is left for an attempt
ConnectionLost ==
  /\ StateOf(webSocket, socketState) \in {"CloseReceived", "Aborted"}
  /\ FreeSockets # {}

\* C31: no connect attempt starts while the current socket is Connecting or
\* Open, whatever starts it, and at most one socket is Connecting or Open.
C31_OneConnection ==
  /\ [][\A s \in SocketIds :
          AttemptStep(s) => /\ StateOf(webSocket, socketState) \notin {"Connecting", "Open"}
                            /\ webSocket' = s]_vars
  /\ [](Cardinality(ActiveSockets) <= 1)
  /\ [](ActiveSockets \subseteq {webSocket})

\* a second attempt is under way after the timer has run during the first
\* one, which failed
C31_Witness ==
  /\ socketState[1] = "Closed"
  /\ socketState[2] = "Connecting"
  /\ webSocket = 2
  /\ reconnectTimer = 0

\* C32: once the receive loop of the current connection has ended,
\* isConnected is false.
C32_DisconnectedAfterReceiveEnds ==
  \A s \in SocketIds : (webSocket = s /\ receiving[s] = "ended") => ~isConnected

\* C33: a lost connection leads to a new connect attempt, and the step of
\* Update that starts an attempt is taken while isConnected is false and the
\* socket is neither Connecting nor Open.
C33_TimerReconnects ==
  /\ [][\A s \in SocketIds :
          (AttemptStep(s) /\ reconnectTimer' = 0 /\ reconnectTimer # 0)
            => /\ ~isConnected
               /\ StateOf(webSocket, socketState) \notin {"Connecting", "Open"}]_vars
  /\ (ConnectionLost ~> StateOf(webSocket, socketState) = "Connecting")

\* C34: every connect attempt ends: the socket leaves Connecting, and when
\* the attempt fails isConnected is false and the guard of ConnectToServer
\* lets a later attempt start.
C34_AttemptEnds ==
  /\ (StateOf(webSocket, socketState) = "Connecting")
       ~> (StateOf(webSocket, socketState) # "Connecting")
  /\ [][\A s \in SocketIds :
          (socketState[s] = "Connecting" /\ socketState'[s] \notin {"Connecting", "Open"})
            => /\ isConnected' = FALSE
               /\ ~AlreadyConnected(webSocket', socketState')]_vars
  /\ [](\A s \in SocketIds : socketState[s] = "Connecting" => webSocket = s)

\* the first attempt was abandoned and the second one succeeded
C34_Witness ==
  /\ socketState[1] = "Closed"
  /\ socketState[2] = "Open"
  /\ isConnected
  /\ receiving[2] = "awaiting"

\* C37: at most one publication loop is running on a connection: a loop
\* started for an earlier connection does not publish on a later one.
C37_OnePublicationLoop ==
  \A t \in SocketIds :
    Cardinality({s \in RunningLoops : sendTarget[s] = t}) <= 1

\* C38: isConnected goes from true to false only when the current socket is
\* not Open.
C38_ConnectedWhileOpen ==
  [][(isConnected /\ ~isConnected') => StateOf(webSocket', socketState') # "Open"]_vars

====
